---- MODULE Spec2Model ----
(***************************************************************************)
(* Model of opexebo's occupancy pipeline:                                  *)
(*   opexebo/general/accumulatespatial.py  : accumulatespatial             *)
(*   opexebo/analysis/spatialOccupancy.py  : spatial_occupancy             *)
(*                                                                         *)
(* Numbers.  Positions, limits and arena sizes are integers (length        *)
(* units).  bin_width is carried doubled (bin_width2 = 2 * bin_width) so   *)
(* that the default 2.5 is the integer 5.  Timestamps are integers in      *)
(* units of 0.0005 s, so the literal 0.001 of the source is 2 units.       *)
(* Bin edges are rationals: an axis with n bins over [lo2/2, hi2/2] has    *)
(* edges (lo2*n + i*(hi2-lo2)) / (2n), i = 0..n; the model stores the      *)
(* numerators.  A coordinate is a record so that NaN and +Inf keep their   *)
(* IEEE comparison behaviour.                                              *)
(*                                                                         *)
(* Both functions are pure, so a behaviour is one call: the initial state  *)
(* holds the arguments and the single step applies the function and        *)
(* records what it returns or raises.  Four specifications differ in the   *)
(* arguments they draw:                                                    *)
(*   Spec      spatial_occupancy on well-shaped arguments, regular clock   *)
(*   SpecTime  spatial_occupancy with repeated or decreasing time stamps   *)
(*   SpecArgs  spatial_occupancy on arbitrary argument shapes              *)
(*   SpecAcc   accumulatespatial called directly                           *)
(*                                                                         *)
(* numpy is modelled by its documented behaviour: np.histogram and         *)
(* np.histogram2d reject a non-finite or reversed range, widen an empty    *)
(* range by 0.5 on each side, and close the last bin on the right.         *)
(***************************************************************************)
EXTENDS Integers, Sequences, FiniteSets, TLC

VARIABLES pc, time, position, speed, kwargs,
          err, occupancy_map, bin_edges, frame_duration,
          occupancy_map_time, mask, coverage

vars == <<pc, time, position, speed, kwargs, err, occupancy_map, bin_edges,
          frame_duration, occupancy_map_time, mask, coverage>>

(* ---------------------------- bounds ----------------------------------- *)
MaxCoord == 1
MaxSamples == 2
MaxTime == 1

(* ------------------------- floating values ----------------------------- *)
Fin(v) == [k |-> "fin", v |-> v]
NaN == [k |-> "nan", v |-> 0]
PInf == [k |-> "inf", v |-> 0]

IsFinite(c) == c.k = "fin"
IsNaN(c) == c.k = "nan"

\* a < b on floats: false whenever a NaN is involved
Lt(a, b) ==
    IF IsNaN(a) \/ IsNaN(b) THEN FALSE
    ELSE IF a.k = "inf" THEN FALSE
    ELSE IF b.k = "inf" THEN TRUE
    ELSE a.v < b.v

\* a >= b on floats: false whenever a NaN is involved
Ge(a, b) ==
    IF IsNaN(a) \/ IsNaN(b) THEN FALSE
    ELSE IF a.k = "inf" THEN TRUE
    ELSE IF b.k = "inf" THEN FALSE
    ELSE a.v >= b.v

Range(s) == {s[i] : i \in DOMAIN s}

SetMin(S) == CHOOSE m \in S : \A o \in S : m <= o
SetMax(S) == CHOOSE m \in S : \A o \in S : m >= o

\* np.nanmin of a non-empty row: NaNs are ignored; an all-NaN row gives NaN
nanmin(row) ==
    LET vals == {c \in Range(row) : ~IsNaN(c)}
        fins == {c.v : c \in {d \in vals : IsFinite(d)}}
    IN  IF vals = {} THEN NaN
        ELSE IF fins # {} THEN Fin(SetMin(fins))
        ELSE PInf

\* np.nanmax of a non-empty row
nanmax(row) ==
    LET vals == {c \in Range(row) : ~IsNaN(c)}
        fins == {c.v : c \in {d \in vals : IsFinite(d)}}
    IN  IF vals = {} THEN NaN
        ELSE IF PInf \in vals THEN PInf
        ELSE Fin(SetMax(fins))

\* rounding down instead of up
Ceil_floor(a, b) == a \div b

\* np.ceil(a / b) for positive integers a, b
Ceil(a, b) == (a + b - 1) \div b

(* ------------------------ opexebo.defaults ----------------------------- *)
default_bin_width2 == 5
default_speed_cutoff == 0
default_shape == "square"
shapes_square == {"square", "rectangle", "rectangular", "rect", "s", "r"}
shapes_circle == {"circ", "circular", "circle", "c"}
shapes_linear == {"linear", "line", "l"}

\* kwargs.get(key, dflt)
Get(kw, key, dflt) == IF key \in DOMAIN kw THEN kw[key] ELSE dflt

\* opexebo.general.validatekeyword__arena_size(arena_size, dims):
\* a scalar is given as a 1-tuple, a pair as a 2-tuple
validatekeyword__arena_size(arena_size, dims) ==
    IF dims = 2
    THEN [err |-> "none", is_2d |-> TRUE,
          size |-> IF Len(arena_size) = 1
                   THEN <<arena_size[1], arena_size[1]>> ELSE arena_size]
    ELSE IF Len(arena_size) = 1
         THEN [err |-> "none", is_2d |-> FALSE, size |-> arena_size]
         ELSE [err |-> "ValueError", is_2d |-> FALSE, size |-> arena_size]

(* ----------------------------- numpy ----------------------------------- *)
\* numpy's _get_outer_edges: the range actually used, doubled; an empty
\* range [a, a] is widened to [a - 0.5, a + 0.5]
OuterLo2(lo, hi) == IF lo = hi THEN 2 * lo - 1 ELSE 2 * lo
OuterHi2(lo, hi) == IF lo = hi THEN 2 * hi + 1 ELSE 2 * hi

\* the range check of _get_outer_edges
RangeOk(lo, hi) == IsFinite(lo) /\ IsFinite(hi) /\ lo.v <= hi.v

\* np.linspace(first, last, n + 1), as numerators over the denominator 2n
EdgeNums(lo, hi, n) ==
    [i \in 1..(n + 1) |->
        OuterLo2(lo, hi) * n + (i - 1) * (OuterHi2(lo, hi) - OuterLo2(lo, hi))]

\* a value lies within the outer edges (both ends included)
InEdges(c, lo, hi) ==
    IsFinite(c) /\ 2 * c.v >= OuterLo2(lo, hi) /\ 2 * c.v <= OuterHi2(lo, hi)

\* 1-based index of the bin holding c; the last bin is closed on the right
BinOf(c, lo, hi, n) ==
    IF 2 * c.v = OuterHi2(lo, hi) THEN n
    ELSE ((2 * c.v - OuterLo2(lo, hi)) * n)
            \div (OuterHi2(lo, hi) - OuterLo2(lo, hi)) + 1

(* ------------------------ accumulatespatial ---------------------------- *)
\* num_bins = np.ceil(arena_size / bin_width), per axis
NumBins(size, bin_width2) == [a \in DOMAIN size |-> Ceil(2 * size[a], bin_width2)]

\* limits as one [min, max] pair per axis, or a marker that they are malformed
AxisLimits(rows, limits, hasLimits) ==
    IF ~hasLimits
    THEN [a \in DOMAIN rows |-> <<nanmin(rows[a]), nanmax(rows[a])>>]
    ELSE [a \in DOMAIN rows |-> <<Fin(limits[2 * a - 1]), Fin(limits[2 * a])>>]

\* x >= limits[0] and x < limits[1]
InRange(c, lim) == Ge(c, lim[1]) /\ Lt(c, lim[2])

\* np.histogram2d(in_range_x, in_range_y, bins=num_bins, range=limits),
\* transposed: the first index is the y bin, the second the x bin
Hist2d(x, y, lims, nb) ==
    LET kept == {i \in DOMAIN x : InRange(x[i], lims[1]) /\ InRange(y[i], lims[2])}
        binned == {i \in kept : /\ InEdges(x[i], lims[1][1].v, lims[1][2].v)
                                /\ InEdges(y[i], lims[2][1].v, lims[2][2].v)}
    IN  [r \in 1..nb[2] |-> [c \in 1..nb[1] |->
            Cardinality({i \in binned :
                /\ BinOf(x[i], lims[1][1].v, lims[1][2].v, nb[1]) = c
                /\ BinOf(y[i], lims[2][1].v, lims[2][2].v, nb[2]) = r})]]

\* np.histogram(x, bins=num_bins, range=limits): all of x, not in_range_x
Hist1d(x, lim, n) ==
    LET binned == {i \in DOMAIN x : InEdges(x[i], lim[1].v, lim[2].v)}
    IN  [c \in 1..n |->
            Cardinality({i \in binned : BinOf(x[i], lim[1].v, lim[2].v, n) = c})]

Failed(e) == [err |-> e, hist |-> <<>>, edges |-> <<>>]

accumulatespatial(pos, kw) ==
    LET dims == Len(pos)
        bin_width2 == Get(kw, "bin_width", default_bin_width2)
        hasLimits == "limits" \in DOMAIN kw
    IN
    IF dims \notin {1, 2} THEN Failed("ValueError")
    ELSE IF "arena_size" \notin DOMAIN kw THEN Failed("ValueError")
    ELSE
    LET v == validatekeyword__arena_size(kw["arena_size"], dims) IN
    IF v.err # "none" THEN Failed(v.err)
    ELSE
    LET num_bins == NumBins(v.size, bin_width2)
        num_samples == Len(pos[1])
    IN
    \* np.nanmin of an empty row raises
    IF ~hasLimits /\ num_samples = 0 THEN Failed("ValueError")
    ELSE IF hasLimits /\ Len(kw["limits"]) # 2 * dims THEN Failed("ValueError")
    ELSE
    LET lims == AxisLimits(pos, Get(kw, "limits", <<>>), hasLimits) IN
    IF \E a \in 1..dims : ~RangeOk(lims[a][1], lims[a][2]) THEN Failed("ValueError")
    ELSE IF v.is_2d
    THEN [err |-> "none",
          hist |-> Hist2d(pos[1], pos[2], lims, num_bins),
          edges |-> <<EdgeNums(lims[2][1].v, lims[2][2].v, num_bins[2]),
                      EdgeNums(lims[1][1].v, lims[1][2].v, num_bins[1])>>]
    ELSE [err |-> "none",
          hist |-> Hist1d(pos[1], lims[1], num_bins[1]),
          edges |-> EdgeNums(lims[1][1].v, lims[1][2].v, num_bins[1])]

(* ------------------------ spatial_occupancy ---------------------------- *)
\* time stamps are counted in ticks; this many ticks make one second
TicksPerSecond == 2000

\* the literal 0.001 of the masking step
MaskThreshold == [num |-> 1, den |-> 1000]

\* keeps the samples at the cutoff as well
Select_ge(row, spd, cutoff) ==
    LET F[i \in 0..Len(row)] ==
            IF i = 0 THEN <<>>
            ELSE IF spd[i] >= cutoff THEN Append(F[i - 1], row[i]) ELSE F[i - 1]
    IN  F[Len(row)]

\* position[a, :][good] with good = speed > speed_cutoff
Select(row, spd, cutoff) ==
    LET F[i \in 0..Len(row)] ==
            IF i = 0 THEN <<>>
            ELSE IF spd[i] > cutoff THEN Append(F[i - 1], row[i]) ELSE F[i - 1]
    IN  F[Len(row)]

\* the smallest strictly positive difference, 0 when there is none
MinDiff_positive(t) ==
    LET pos == {d \in {t[i + 1] - t[i] : i \in 1..(Len(t) - 1)} : d > 0}
    IN  IF pos = {} THEN 0 ELSE SetMin(pos)

\* np.min(np.diff(time)) for at least two time stamps
MinDiff(t) == SetMin({t[i + 1] - t[i] : i \in 1..(Len(t) - 1)})

\* np.count_nonzero of a 2D histogram
CountNonzero(h) ==
    Cardinality({rc \in (DOMAIN h) \X (DOMAIN h[1]) : h[rc[1]][rc[2]] # 0})

\* occupancy_map.size
MapSize(h) == Len(h) * Len(h[1])

\* np.sum(in_field): bins whose centre, taken as the lower edge plus half a
\* bin_width, is within radius of the coordinate origin.  An edge array e with
\* n bins holds numerators over 2n, so a centre is (2 e[i] + bin_width2 n) / 4n
InFieldCount(edges, bin_width2, diameter) ==
    LET n1 == Len(edges[1]) - 1
        n2 == Len(edges[2]) - 1
        c1(i) == 2 * edges[1][i] + bin_width2 * n1
        c2(j) == 2 * edges[2][j] + bin_width2 * n2
    IN  Cardinality({ij \in (1..n1) \X (1..n2) :
            (c1(ij[1]) * n2) * (c1(ij[1]) * n2) + (c2(ij[2]) * n1) * (c2(ij[2]) * n1)
                <= 4 * diameter * diameter * n1 * n1 * n2 * n2})

\* the ratio without the clamp
MinOne_unclamped(num, den) == <<num, den>>

\* min(1.0, num / den) as a fraction; num / 0 is inf or nan in numpy, and
\* Python's min(1.0, inf) and min(1.0, nan) are both 1.0
MinOne(num, den) ==
    IF den = 0 \/ num >= den THEN <<1, 1>> ELSE <<num, den>>

\* masks on the time-scaled value instead of the frame count
MaskedWhere_time(hist, fd) ==
    [r \in DOMAIN hist |-> [c \in DOMAIN hist[r] |->
        hist[r][c] * fd * MaskThreshold.den < MaskThreshold.num * TicksPerSecond]]

\* the mask of np.ma.masked_where(occupancy_map < 0.001, occupancy_map_time)
MaskedWhere(hist, fd) ==
    [r \in DOMAIN hist |-> [c \in DOMAIN hist[r] |->
        hist[r][c] * MaskThreshold.den < MaskThreshold.num]]

\* occupancy_map * frame_duration
Scale(hist, fd) ==
    [r \in DOMAIN hist |-> [c \in DOMAIN hist[r] |-> hist[r][c] * fd]]

\* every tag that is not a circle counts as a rectangle
IsSquare_fallback(shape) == shape \notin shapes_circle

\* shape.lower() in default.shapes_square
IsSquare(shape) == shape \in shapes_square

\* shape.lower() in default.shapes_circle
IsCircle(shape) == shape \in shapes_circle

Raised(e) ==
    [err |-> e, occupancy_map |-> <<>>, bin_edges |-> <<>>, frame_duration |-> 0,
     occupancy_map_time |-> <<>>, mask |-> <<>>, coverage |-> <<0, 1>>]

spatial_occupancy(t, pos, spd, kw) ==
    LET dimensionality == Len(pos) IN
    IF dimensionality \notin {1, 2} THEN Raised("ValueError")
    ELSE IF Len(spd) # Len(pos[1]) THEN Raised("ValueError")
    ELSE IF "arena_size" \notin DOMAIN kw THEN Raised("KeyError")
    \* y = position[1,:][good] on a one-row array
    ELSE IF dimensionality = 1 THEN Raised("IndexError")
    ELSE
    LET speed_cutoff == Get(kw, "speed_cutoff", default_speed_cutoff)
        x == Select(pos[1], spd, speed_cutoff)
        y == Select(pos[2], spd, speed_cutoff)
        acc == accumulatespatial(<<x, y>>, kw)
    IN
    IF acc.err # "none" THEN Raised(acc.err)
    \* np.min of an empty np.diff
    ELSE IF Len(t) < 2 THEN Raised("ValueError")
    ELSE
    LET fd == MinDiff(t)
        map_time == Scale(acc.hist, fd)
        msk == MaskedWhere(acc.hist, fd)
        arena_size == kw["arena_size"]
        bin_width2 == Get(kw, "bin_width", default_bin_width2)
        shape == Get(kw, "arena_shape", default_shape)
        done(cov) == [err |-> "none", occupancy_map |-> acc.hist,
                      bin_edges |-> acc.edges, frame_duration |-> fd,
                      occupancy_map_time |-> map_time, mask |-> msk,
                      coverage |-> cov]
    IN
    IF IsSquare(shape)
    THEN done(<<CountNonzero(acc.hist), MapSize(acc.hist)>>)
    ELSE IF IsCircle(shape)
    THEN done(MinOne(CountNonzero(acc.hist),
                     InFieldCount(acc.edges, bin_width2, arena_size[1])))
    \* raised after the map has been computed; no coverage is assigned
    ELSE [done(<<0, 1>>) EXCEPT !.err = "NotImplementedError"]

(* --------------------------- inputs ------------------------------------ *)
Coords == {Fin(v) : v \in 0..MaxCoord}
Floats == Coords \cup {NaN, PInf}

\* all sequences of length n over S
Tuples(S, n) == [1..n -> S]

\* optional keyword: either absent or one of the values
Opt(key, values) == {<<>>} \cup {[k \in {key} |-> v] : v \in values}

\* union of keyword dictionaries with disjoint keys
Merge(a, b) ==
    [k \in (DOMAIN a) \cup (DOMAIN b) |-> IF k \in DOMAIN a THEN a[k] ELSE b[k]]

ArenaSizes == {<<2>>, <<2, 4>>}
BinWidths2 == {2}
Limits2d == {<<0, 1, 0, 1>>, <<0, 2, 0, 2>>}

\* every combination of the optional keywords over the given value sets
Kwargs(shapes, sizes, limitSet) ==
    {Merge(Merge(s, a), Merge(b, l)) :
        s \in shapes, a \in sizes,
        b \in Opt("bin_width", BinWidths2), l \in Opt("limits", limitSet)}

\* position arrays of shape (dims, n) over the value set S
Arrays(S, dims, n) == Tuples(Tuples(S, n), dims)

\* the time stamps of a regular clock
Clock(n) == [i \in 1..n |-> i - 1]

Blank ==
    /\ err = "none"
    /\ occupancy_map = <<>>
    /\ bin_edges = <<>>
    /\ frame_duration = 0
    /\ occupancy_map_time = <<>>
    /\ mask = <<>>
    /\ coverage = <<0, 1>>

\* position arrays whose samples after the first are finite
FirstMayBeNonFinite(dims, n) ==
    {p \in Arrays(Floats, dims, n) : \A a \in 1..dims : \A i \in 2..n : IsFinite(p[a][i])}

\* calls with well-shaped arguments: two position rows, one speed per sample,
\* an arena size, a supported shape tag and a regular clock.  The first
\* sample may be non-finite.
Init ==
    /\ pc = "start"
    /\ \E n \in 2..MaxSamples :
        /\ time = Clock(n)
        /\ position \in FirstMayBeNonFinite(2, n)
        /\ speed \in Tuples({0, 1}, n)
    /\ kwargs \in Kwargs(Opt("arena_shape", {"circle"}),
                         {[arena_size |-> a] : a \in ArenaSizes}, Limits2d)
    /\ Blank

\* calls with well-shaped arguments whose time stamps may repeat or decrease;
\* positions are finite and every sample is faster than the cutoff
InitTime ==
    /\ pc = "start"
    /\ \E n \in 2..MaxSamples :
        /\ time \in Tuples(0..MaxTime, n)
        /\ position \in Arrays(Coords, 2, n)
        /\ speed = [i \in 1..n |-> 1]
    /\ kwargs \in Kwargs({<<>>}, {[arena_size |-> a] : a \in ArenaSizes}, Limits2d)
    /\ Blank

\* position arrays whose rows after the second are all zero
ExtraRowsZero(dims, n) ==
    {p \in Arrays(Coords, dims, n) : \A a \in 3..dims : \A i \in 1..n : p[a][i] = Fin(0)}

\* calls with arbitrary argument shapes: any number of position rows, a speed
\* array that may be one short, optional arena size, any shape tag, limits
\* with a wrong element count
InitArgs ==
    /\ pc = "start"
    /\ \E n \in 1..MaxSamples :
        /\ time = Clock(n)
        /\ \E dims \in 0..3 : position \in ExtraRowsZero(dims, n)
        /\ speed \in {[i \in 1..n |-> 1], [i \in 1..(n - 1) |-> 1]}
    /\ kwargs \in Kwargs(Opt("arena_shape", {"circle", "linear", "hexagon"}),
                         Opt("arena_size", ArenaSizes),
                         Limits2d \cup {<<0, 2>>})
    /\ Blank

\* direct calls of the accumulator on one or two rows (or on none or three
\* rows of zeros): explicit limits run over every pair of bounds on the first
\* axis, including empty and reversed ranges and a wrong element count, and
\* over a full and an empty range on the second
LimitVals == 0..(MaxCoord + 1)
LimitsAny ==
    Tuples(LimitVals, 2) \cup
    {<<x[1], x[2], y[1], y[2]>> :
        x \in Tuples(LimitVals, 2), y \in {<<0, 0>>, <<0, MaxCoord + 1>>}}

InitAcc ==
    /\ pc = "start"
    /\ time = <<>>
    /\ speed = <<>>
    /\ \E n \in 0..MaxSamples : \E dims \in 0..3 :
        position \in IF dims \in {1, 2} THEN FirstMayBeNonFinite(dims, n)
                     ELSE {[a \in 1..dims |-> [i \in 1..n |-> Fin(0)]]}
    /\ kwargs \in Kwargs({<<>>}, {[arena_size |-> a] : a \in ArenaSizes}, LimitsAny)
    /\ Blank

(* --------------------------- actions ----------------------------------- *)
SpatialOccupancy ==
    /\ pc = "start"
    /\ \E r \in {spatial_occupancy(time, position, speed, kwargs)} :
        /\ err' = r.err
        /\ occupancy_map' = r.occupancy_map
        /\ bin_edges' = r.bin_edges
        /\ frame_duration' = r.frame_duration
        /\ occupancy_map_time' = r.occupancy_map_time
        /\ mask' = r.mask
        /\ coverage' = r.coverage
    /\ pc' = "done"
    /\ UNCHANGED <<time, position, speed, kwargs>>

\* a direct call of the accumulator on position as pos
AccumulateSpatial ==
    /\ pc = "start"
    /\ \E r \in {accumulatespatial(position, kwargs)} :
        /\ err' = r.err
        /\ occupancy_map' = r.hist
        /\ bin_edges' = r.edges
    /\ pc' = "done"
    /\ UNCHANGED <<time, position, speed, kwargs, frame_duration,
                   occupancy_map_time, mask, coverage>>

Next == SpatialOccupancy

Spec == Init /\ [][Next]_vars

SpecTime == InitTime /\ [][Next]_vars

SpecArgs == InitArgs /\ [][Next]_vars

NextAcc == AccumulateSpatial

SpecAcc == InitAcc /\ [][NextAcc]_vars

(* ------------------------- shared vocabulary --------------------------- *)
Done == pc = "done"
Returned == pc = "done" /\ err = "none"

Shape == Get(kwargs, "arena_shape", default_shape)
Cutoff == Get(kwargs, "speed_cutoff", default_speed_cutoff)
HasLimits == "limits" \in DOMAIN kwargs

\* the samples whose speed strictly exceeds the cutoff
Passing == {i \in DOMAIN speed : speed[i] > Cutoff}

\* sum of a sequence of naturals
SeqSum(q) ==
    LET F[i \in 0..Len(q)] == IF i = 0 THEN 0 ELSE F[i - 1] + q[i]
    IN  F[Len(q)]

\* sum of all counts of a 2D histogram
HistSum2(h) == SeqSum([r \in DOMAIN h |-> SeqSum(h[r])])

\* all bins of a 2D map
Bins(h) == {rc \in (DOMAIN h) \X (DOMAIN h[1]) : TRUE}

StrictlyIncreasing(q) == \A i \in 1..(Len(q) - 1) : q[i] < q[i + 1]

\* every argument other than the number of position rows is acceptable:
\* one speed per time stamp, an arena size, a supported shape tag, limits
\* absent or with two elements per row, at least two time stamps
OtherwiseValid ==
    /\ Len(speed) = Len(time)
    /\ Len(time) >= 2
    /\ "arena_size" \in DOMAIN kwargs
    /\ Len(position) = 1 => Len(kwargs["arena_size"]) = 1
    /\ Shape \in shapes_square \cup shapes_circle
    /\ HasLimits => Len(kwargs["limits"]) = 2 * Len(position)

(* ------------------------------- C1 ------------------------------------ *)
\* C1: for otherwise valid input, spatial_occupancy returns when the position
\* array has one or two rows and raises the invalid-input error for any
\* other number of rows.
C1_OneAndTwoRowsSucceed ==
    (Done /\ OtherwiseValid) =>
        IF Len(position) \in {1, 2} THEN err = "none" ELSE err = "ValueError"

(* ------------------------------- C4 ------------------------------------ *)
\* C4 (as stated): a linear shape tag raises the not-implemented error
\* whatever the other inputs are.
C4_LinearAlwaysNotImplemented ==
    (Done /\ Shape \in shapes_linear) => err = "NotImplementedError"

\* every step before the shape dispatch succeeds
ReachesShapeDispatch ==
    /\ Len(position) = 2
    /\ Len(speed) = Len(position[1])
    /\ "arena_size" \in DOMAIN kwargs
    /\ accumulatespatial(<<Select(position[1], speed, Cutoff),
                           Select(position[2], speed, Cutoff)>>, kwargs).err = "none"
    /\ Len(time) >= 2

\* C4 (amended): with a linear shape tag spatial_occupancy never returns; it
\* raises the not-implemented error exactly when every earlier step (shape
\* checks, arena_size lookup, row selection, accumulator, frame duration)
\* succeeds, and the error of the first failing step otherwise.
C4_LinearNeverReturns ==
    (Done /\ Shape \in shapes_linear) =>
        /\ err # "none"
        /\ err = "NotImplementedError" <=> ReachesShapeDispatch

C4_Witness ==
    /\ Done
    /\ Shape \in shapes_linear
    /\ err = "NotImplementedError"
    /\ HistSum2(occupancy_map) > 0

(* ------------------------------- C2 ------------------------------------ *)
\* C2 (as stated): in the returned map a bin is masked exactly when its
\* time-scaled value (frame count times frame duration) is below 0.001.
C2_MaskOnTimeScaledValue ==
    Returned =>
        \A rc \in Bins(mask) :
            mask[rc[1]][rc[2]] <=>
                occupancy_map_time[rc[1]][rc[2]] * MaskThreshold.den
                    < MaskThreshold.num * TicksPerSecond

\* C2 (amended): in the returned map a bin is masked exactly when its frame
\* count is below 0.001, that is when no kept sample fell into it, whatever
\* the frame duration is.
C2_MaskOnFrameCount ==
    Returned =>
        /\ Bins(mask) = Bins(occupancy_map)
        /\ \A rc \in Bins(mask) :
            mask[rc[1]][rc[2]] <=> occupancy_map[rc[1]][rc[2]] = 0

\* a visited bin whose time-scaled value is below 0.001 and that is not masked
C2_Witness ==
    /\ Returned
    /\ \E rc \in Bins(mask) :
        /\ occupancy_map[rc[1]][rc[2]] > 0
        /\ occupancy_map_time[rc[1]][rc[2]] * MaskThreshold.den
                < MaskThreshold.num * TicksPerSecond
        /\ ~mask[rc[1]][rc[2]]
    /\ \E rc \in Bins(mask) : mask[rc[1]][rc[2]]

(* ------------------------------- C3 ------------------------------------ *)
\* C3: whenever spatial_occupancy returns, the coverage is a number in
\* [0, 1], for rectangle and for circle shape tags, also when no bin centre
\* is in-field and when no bin is visited.
C3_CoverageInUnitInterval ==
    Returned =>
        /\ coverage[2] > 0
        /\ 0 <= coverage[1]
        /\ coverage[1] <= coverage[2]

\* a circular arena where bins were visited although no centre is in-field
C3_Witness ==
    /\ Returned
    /\ Shape \in shapes_circle
    /\ CountNonzero(occupancy_map) > 0
    /\ InFieldCount(bin_edges, Get(kwargs, "bin_width", default_bin_width2),
                    kwargs["arena_size"][1]) = 0

(* ------------------------------- C5 ------------------------------------ *)
Diffs == {time[i + 1] - time[i] : i \in 1..(Len(time) - 1)}
PositiveDiffs == {d \in Diffs : d > 0}

KeptRows ==
    <<Select(position[1], speed, Cutoff), Select(position[2], speed, Cutoff)>>

\* the limits in effect on axis a: the explicit ones, else the extent of the
\* kept samples
LimitsInEffect(a) ==
    IF HasLimits
    THEN <<Fin(kwargs["limits"][2 * a - 1]), Fin(kwargs["limits"][2 * a])>>
    ELSE <<nanmin(KeptRows[a]), nanmax(KeptRows[a])>>

\* sample i lies within the limits, lower bound included, upper excluded
WithinLimits(i) ==
    \A a \in 1..2 :
        /\ Ge(position[a][i], LimitsInEffect(a)[1])
        /\ Lt(position[a][i], LimitsInEffect(a)[2])

FiniteSamples ==
    {i \in DOMAIN speed : IsFinite(position[1][i]) /\ IsFinite(position[2][i])}

\* the entries of a row at the indices in S, in order
Keep(row, S) ==
    LET F[i \in 0..Len(row)] ==
            IF i = 0 THEN <<>>
            ELSE IF i \in S THEN Append(F[i - 1], row[i]) ELSE F[i - 1]
    IN  F[Len(row)]

\* the same call with the non-finite samples absent
WithoutNonFinite ==
    spatial_occupancy(time,
                      <<Keep(position[1], FiniteSamples),
                        Keep(position[2], FiniteSamples)>>,
                      Keep(speed, FiniteSamples), kwargs)

\* C9: a sample whose position holds NaN or Inf never makes the call raise; it
\* is left out of the histogram and of the auto-derived limits, so the call
\* returns what it returns with that sample absent.
C9_NonFiniteSamplesIgnored ==
    (Done /\ WithoutNonFinite.err = "none") =>
        /\ err = "none"
        /\ occupancy_map = WithoutNonFinite.occupancy_map
        /\ bin_edges = WithoutNonFinite.bin_edges
        /\ coverage = WithoutNonFinite.coverage

(* ------------------------------- C10 ----------------------------------- *)
\* bins whose centre, taken as the midpoint of its two edges on each axis, is
\* within diameter / 2 of the origin.  Edge numerators e over 2n: the
\* midpoint of bin i is (e[i] + e[i+1]) / 4n
MidpointInFieldCount(edges, diameter) ==
    LET n1 == Len(edges[1]) - 1
        n2 == Len(edges[2]) - 1
        m1(i) == edges[1][i] + edges[1][i + 1]
        m2(j) == edges[2][j] + edges[2][j + 1]
    IN  Cardinality({ij \in (1..n1) \X (1..n2) :
            (m1(ij[1]) * n2) * (m1(ij[1]) * n2) + (m2(ij[2]) * n1) * (m2(ij[2]) * n1)
                <= 4 * diameter * diameter * n1 * n1 * n2 * n2})

\* C10: for circle shape tags coverage = min(1, visited bins / in-field bins),
\* a bin being in-field iff the midpoint of its returned edges is within
\* arena_size / 2 (or arena_size[0] / 2) of the origin, also when the limits
\* make the bin spacing differ from bin_width.
C10_CircleCoverageFromMidpoints ==
    (Returned /\ Shape \in shapes_circle) =>
        LET visited == CountNonzero(occupancy_map)
            inField == MidpointInFieldCount(bin_edges, kwargs["arena_size"][1])
        IN  inField > 0 =>
                IF visited >= inField
                THEN coverage[1] = coverage[2]
                ELSE coverage[1] * inField = visited * coverage[2]

(* ------------------------------- C7 ------------------------------------ *)
AccReturned == pc = "done" /\ err = "none"

\* the arena extent along axis a (1 = x, 2 = y) of a direct accumulator call
Extent(a) ==
    IF Len(kwargs["arena_size"]) = 1
    THEN kwargs["arena_size"][1] ELSE kwargs["arena_size"][a]

\* ceil(extent / bin_width): the least k with k * bin_width >= extent
ExpectedBins(extent) ==
    LET bin_width2 == Get(kwargs, "bin_width", default_bin_width2)
    IN  CHOOSE k \in 0..(2 * extent) :
            k * bin_width2 >= 2 * extent /\ (k - 1) * bin_width2 < 2 * extent

\* the call of the example: arena_size 100, bin_width 2.5, limits (0,10,0,10)
ExampleGrid ==
    accumulatespatial(<<<<>>, <<>>>>,
                      [arena_size |-> <<100>>, limits |-> <<0, 10, 0, 10>>])

\* the example call gives a 40 x 40 grid with 41 edges per axis over [0, 10]
ExampleHolds ==
    /\ ExampleGrid.err = "none"
    /\ Len(ExampleGrid.hist) = 40
    /\ \A r \in 1..40 : Len(ExampleGrid.hist[r]) = 40
    /\ \A a \in 1..2 :
        /\ Len(ExampleGrid.edges[a]) = 41
        /\ StrictlyIncreasing(ExampleGrid.edges[a])
        /\ ExampleGrid.edges[a][1] = 0
        /\ ExampleGrid.edges[a][41] = 10 * (2 * 40)

\* C7: the accumulator uses ceil(arena_size / bin_width) bins per axis,
\* whatever the limits are, and returns per axis bin count + 1 strictly
\* increasing edges; arena_size 100, bin_width 2.5, limits (0,10,0,10) gives
\* a 40 x 40 grid with 41 edges per axis spanning [0, 10].
C7_BinCountFromArenaSize ==
    /\ AccReturned =>
        IF Len(position) = 2
        THEN /\ Len(bin_edges[1]) = ExpectedBins(Extent(2)) + 1
             /\ Len(bin_edges[2]) = ExpectedBins(Extent(1)) + 1
             /\ StrictlyIncreasing(bin_edges[1])
             /\ StrictlyIncreasing(bin_edges[2])
             /\ Len(occupancy_map) = ExpectedBins(Extent(2))
             /\ \A r \in DOMAIN occupancy_map :
                    Len(occupancy_map[r]) = ExpectedBins(Extent(1))
        ELSE /\ Len(bin_edges) = ExpectedBins(Extent(1)) + 1
             /\ StrictlyIncreasing(bin_edges)
             /\ Len(occupancy_map) = ExpectedBins(Extent(1))
    /\ ExampleHolds

\* explicit limits whose span differs from the arena extent, and a sample
\* counted
C7_Witness ==
    /\ AccReturned
    /\ Len(position) = 2
    /\ HasLimits
    /\ kwargs["limits"][2] - kwargs["limits"][1] # Extent(1)
    /\ HistSum2(occupancy_map) > 0

(* ------------------------------- C8 ------------------------------------ *)
\* the limits in effect on axis a of a direct accumulator call
AccLimits(a) ==
    IF HasLimits
    THEN <<Fin(kwargs["limits"][2 * a - 1]), Fin(kwargs["limits"][2 * a])>>
    ELSE <<nanmin(position[a]), nanmax(position[a])>>

\* the observations with min <= c < max on every axis
HalfOpen ==
    {i \in DOMAIN position[1] :
        \A a \in 1..Len(position) :
            Ge(position[a][i], AccLimits(a)[1]) /\ Lt(position[a][i], AccLimits(a)[2])}

\* C8: for 1D and 2D input alike the histogram counts exactly the
\* observations with min <= c < max on every axis: one at the upper limit is
\* discarded, one at the lower limit is counted.
C8_HalfOpenLimits ==
    AccReturned =>
        (IF Len(position) = 2
         THEN HistSum2(occupancy_map) ELSE SeqSum(occupancy_map))
            = Cardinality(HalfOpen)

====
